---- MODULE Spec2Model ----
(***************************************************************************)
(* Model of the facebook-scrape extraction engine:                         *)
(*   - the load loops of scrapeFacebookPage (loadArticles) and of           *)
(*     scrapeFacebookPageOptimized,                                         *)
(*   - the extraction / deduplication / enrichment pipeline,                *)
(*   - parseDateToISO,                                                      *)
(*   - gotoWithRetry,                                                       *)
(*   - the browser process: login(), the try block, the finally block,      *)
(*   - the summary of scrapeFacebookPageOptimized.                          *)
(* Strings are sequences of atoms (words, blanks, UI labels); the page is   *)
(* a list of articles of which the first `loaded` are in the DOM.           *)
(***************************************************************************)
EXTENDS Integers, Sequences, FiniteSets, TLC

VARIABLES
    variant,            \* "main" = scrapeFacebookPage, "opt" = scrapeFacebookPageOptimized
    POSTS_TARGET,       \* option POSTS_TARGET
    SCROLL_STALL_LIMIT, \* option SCROLL_STALL_LIMIT (the literal 5 in "opt")
    SCROLL_MAX_LOOPS,   \* option SCROLL_MAX_LOOPS (the literal 100 in "opt")
    pageShrinks,        \* environment: may the page drop articles it has rendered
    source,             \* environment: the articles the page can render, in order
    loaded,             \* environment: number of div[role="article"] now in the DOM
    changed,            \* history: some scroll of the load loop changed `loaded`
    pc,                 \* position of the run
    i,                  \* loop variable i of the load loop
    lastCount,          \* let lastCount
    stalls,             \* let stalls
    exit,               \* how the load loop ended: "none", "target", "stall", "ceiling"
    scrolls,            \* history: reveal actions issued by the load loop
    stalledOnce,        \* history: some iteration of the load loop counted a stall
    exitCount,          \* const count of the iteration that ended the load loop
    safetyScrolls,      \* loop variable of scrollPageToBottom (the extra safety scroll)
    posts,              \* const posts (the list $$eval returned)
    result,             \* const result
    maxRetries,         \* gotoWithRetry: parameter maxRetries
    navI,               \* gotoWithRetry: loop variable i
    navPc,              \* gotoWithRetry: "idle", "loop", "sleep", "returned", "thrown"
    attempts,           \* history: outcome of every page.goto call, in order
    thrown,             \* the error gotoWithRetry threw, "none" when it did not
    sleeps,             \* history: the sleep(ms) calls of gotoWithRetry, in order
    cand,               \* index of the posts-tab candidate being tried, 0 outside that loop
    navFailed,          \* history: the navigations of the run that failed on all attempts
    arg,                \* the argument of the utility function being called
    ret,                \* what the call returned
    calls,              \* history: number of calls made (the second one on the first's result)
    now,                \* environment: the current local date (new Date())
    tz,                 \* environment: hours the process's time zone is ahead of UTC
    conc,               \* overlapping runs: per run its position, page, answers read, exit, posts
    frames,             \* overlapping runs: the let bindings (i, lastCount, stalls) of each call
    browser,            \* let browser of the scraper: 0 is null, else the browser's id
    page,               \* let page of the scraper: 0 is null, else the browser it belongs to
    aboutPage,          \* let aboutPage of scrapeFacebookPage, likewise
    launched,           \* history: the browsers puppeteer.launch has started
    closes,             \* history: the close() calls made, in order, with their outcome
    step,               \* position inside login() or inside the try block
    threwAt             \* the step whose failure is being propagated, "none" if none

loadVars == <<pc, i, lastCount, stalls, exit, scrolls, loaded, changed, stalledOnce, exitCount>>
cfgVars  == <<variant, POSTS_TARGET, SCROLL_STALL_LIMIT, SCROLL_MAX_LOOPS, pageShrinks, source>>
runVars  == <<safetyScrolls, posts, result>>
navVars  == <<maxRetries, navI, navPc, attempts, thrown, sleeps, cand, navFailed>>
fnVars   == <<arg, ret, calls, now, tz>>
concVars == <<conc, frames>>
procVars == <<browser, page, aboutPage, launched, closes, step, threwAt>>
vars     == <<loadVars, cfgVars, runVars, navVars, fnVars, concVars, procVars>>

----------------------------------------------------------------------------
(* Bounds of the model *)

MaxCount == 3        \* articles of the page in the load-loop specification
MaxTarget == 4       \* largest POSTS_TARGET
MaxStallLimit == 2   \* largest SCROLL_STALL_LIMIT
MaxLoops == 4        \* largest SCROLL_MAX_LOOPS

(* Literals of scrapeFacebookPageOptimized *)
OptStallLimit == 5
OptMaxLoops == 100

NoValue == [kind |-> "null"]

Min(a, b) == IF a <= b THEN a ELSE b
Max(a, b) == IF a >= b THEN a ELSE b

----------------------------------------------------------------------------
(* The load loop: loadArticles and the scroll loop of the optimized scraper *)

\* for (let i = 0; i < SCROLL_MAX_LOOPS; i++)
LoopGuardOffByOne == i <= SCROLL_MAX_LOOPS
LoopGuard == i < SCROLL_MAX_LOOPS

\* if (count >= target) break;
TargetReachedStrict(count) == count > POSTS_TARGET
TargetReached(count) == count >= POSTS_TARGET

\* if (count <= lastCount) stalls += 1; else stalls = 0;
NextStallsNoReset(count) == IF count <= lastCount THEN stalls + 1 ELSE stalls
NextStalls(count) == IF count <= lastCount THEN stalls + 1 ELSE 0

\* main: lastCount = count only in the else branch; opt: lastCount = count always
NextLastCount(count) ==
    IF variant = "main"
    THEN (IF count <= lastCount THEN lastCount ELSE count)
    ELSE count

\* if (stalls >= SCROLL_STALL_LIMIT) break;
StallBreakLate(s) == s > SCROLL_STALL_LIMIT
StallBreak(s) == s >= SCROLL_STALL_LIMIT

\* What a reveal can do to the number of rendered articles
Revealed == IF pageShrinks THEN 0..Len(source) ELSE loaded..Len(source)

\* Where the run continues after the load loop
AfterLoadSafetyAlways == "safety"
AfterLoadThrowsOnExhaustion ==
    IF exit \in {"stall", "ceiling"} THEN "thrown"
    ELSE IF variant = "main" THEN "safety" ELSE "extract"
AfterLoad == IF variant = "main" THEN "safety" ELSE "extract"

\* Loop head true: the scroll of one iteration (window.scrollTo / scrollBy, End, wheel)
LoadScroll ==
    /\ pc = "loop"
    /\ LoopGuard
    /\ \E n \in Revealed :
          /\ loaded' = n
          /\ changed' = (changed \/ n # loaded)
    /\ scrolls' = scrolls + 1
    /\ pc' = "count"
    /\ UNCHANGED <<i, lastCount, stalls, exit, stalledOnce, exitCount, cfgVars, fnVars, concVars, runVars, navVars, procVars>>

\* Loop head false: the iteration ceiling ends the loop
LoadCeiling ==
    /\ pc = "loop"
    /\ ~LoopGuard
    /\ exit' = "ceiling"
    /\ pc' = "exited"
    /\ UNCHANGED <<i, lastCount, stalls, scrolls, loaded, changed, stalledOnce, exitCount, cfgVars, fnVars, concVars, runVars, navVars, procVars>>

\* const count = await pg.$$eval(...) and the rest of the loop body
LoadCount ==
    /\ pc = "count"
    /\ LET count == loaded IN
         IF TargetReached(count)
         THEN /\ exit' = "target"
              /\ exitCount' = count
              /\ pc' = "exited"
              /\ UNCHANGED <<i, lastCount, stalls, stalledOnce>>
         ELSE /\ stalls' = NextStalls(count)
              /\ lastCount' = NextLastCount(count)
              /\ stalledOnce' = (stalledOnce \/ count <= lastCount)
              /\ IF StallBreak(stalls')
                 THEN /\ exit' = "stall"
                      /\ exitCount' = count
                      /\ pc' = "exited"
                      /\ i' = i
                 ELSE /\ exit' = exit
                      /\ exitCount' = exitCount
                      /\ pc' = "loop"
                      /\ i' = i + 1
    /\ UNCHANGED <<scrolls, loaded, changed, cfgVars, fnVars, concVars, runVars, navVars, procVars>>

\* pg.evaluate / pg.$$eval rejects: the loop, and the run, end by throwing;
\* the locals of loadArticles are gone
LoadThrow ==
    /\ \/ pc = "loop" /\ LoopGuard
       \/ pc = "count"
    /\ pc' = "thrown"
    /\ i' = 0 /\ lastCount' = 0 /\ stalls' = 0 /\ scrolls' = 0 /\ changed' = FALSE
    /\ UNCHANGED <<exit, loaded, stalledOnce, exitCount, cfgVars, fnVars, concVars, runVars, navVars, procVars>>

\* loadArticles returns: its locals are gone, the run goes on
LoadReturn ==
    /\ pc = "exited"
    /\ pc' = AfterLoad
    /\ i' = 0 /\ lastCount' = 0 /\ stalls' = 0 /\ scrolls' = 0 /\ changed' = FALSE
    /\ UNCHANGED <<exit, loaded, stalledOnce, exitCount, cfgVars, fnVars, concVars, runVars, navVars, procVars>>

LoadDone == pc \in {"exited", "thrown"}

Configs ==
    {c \in [variant : {"main", "opt"}, target : 0..MaxTarget,
            stallLimit : 0..OptStallLimit, maxLoops : 0..OptMaxLoops] :
        \/ c.variant = "main" /\ c.stallLimit <= MaxStallLimit /\ c.maxLoops <= MaxLoops
        \/ c.variant = "opt" /\ c.stallLimit = OptStallLimit /\ c.maxLoops = OptMaxLoops}

InitLoadState ==
    /\ pc = "loop"
    /\ i = 0
    /\ lastCount = 0
    /\ stalls = 0
    /\ exit = "none"
    /\ scrolls = 0
    /\ changed = FALSE
    /\ stalledOnce = FALSE
    /\ exitCount = 0

InitRunIdle ==
    /\ safetyScrolls = 0
    /\ posts = <<>>
    /\ result = NoValue

InitNavIdle ==
    /\ maxRetries = 0
    /\ navI = 0
    /\ navPc = "idle"
    /\ attempts = <<>>
    /\ thrown = "none"
    /\ sleeps = <<>>
    /\ cand = 0
    /\ navFailed = {}

\* A current date and a time zone for the runs, which do not depend on them
MidJune == [month |-> 5, day |-> 15, leap |-> FALSE]

InitFnIdle ==
    /\ arg = <<>>
    /\ ret = NoValue
    /\ calls = 0
    /\ now = MidJune
    /\ tz = 0

\* No overlapping runs
InitConcIdle ==
    /\ conc = <<>>
    /\ frames = <<>>

\* No browser process yet
InitProcIdle ==
    /\ browser = 0
    /\ page = 0
    /\ aboutPage = 0
    /\ launched = {}
    /\ closes = <<>>
    /\ step = 0
    /\ threwAt = "none"

BlankArticle == [text |-> <<"a">>, date |-> NoValue]

InitLoad ==
    /\ \E c \in Configs :
          /\ variant = c.variant
          /\ POSTS_TARGET = c.target
          /\ SCROLL_STALL_LIMIT = c.stallLimit
          /\ SCROLL_MAX_LOOPS = c.maxLoops
    /\ pageShrinks \in BOOLEAN
    /\ source = [k \in 1..MaxCount |-> BlankArticle]
    /\ loaded \in 0..MaxCount
    /\ InitLoadState
    /\ InitRunIdle
    /\ InitNavIdle
    /\ InitFnIdle
    /\ InitConcIdle
    /\ InitProcIdle

NextLoad == LoadScroll \/ LoadCeiling \/ LoadCount \/ LoadThrow

SpecLoad == InitLoad /\ [][NextLoad]_vars

SpecLoadFair == SpecLoad /\ WF_vars(NextLoad)

----------------------------------------------------------------------------
(* Text: a string is a sequence of atoms.  "See more" stands for the expand    *)
(* labels (it and its Arabic synonym), "Like" and "Share" for the action-bar   *)
(* labels, " " for white space, the others for ordinary words.                 *)

SeeMoreLabels == {"See more"}
ActionLabels == {"Like", "Share"}
Blank == " "

\* String.prototype.length of an atom
AtomLen(a) ==
    CASE a = "a" -> 1
      [] a = "b" -> 1
      [] a = " " -> 1
      [] a = "longword" -> 8
      [] a = "See more" -> 8
      [] a = "Like" -> 4
      [] a = "Share" -> 5
      [] a = "N/A" -> 3
      [] OTHER -> 1

RECURSIVE StrLen(_)
StrLen(t) == IF t = <<>> THEN 0 ELSE AtomLen(Head(t)) + StrLen(Tail(t))

\* t.replace(/See more/gi, r) with r a string (" " in the main scraper, "" in opt)
RECURSIVE ReplaceSeeMore(_, _)
ReplaceSeeMore(t, r) ==
    IF t = <<>> THEN <<>>
    ELSE (IF Head(t) \in SeeMoreLabels THEN r ELSE <<Head(t)>>) \o ReplaceSeeMore(Tail(t), r)

\* t.split(splitOn)[0]: what precedes the first action-bar label
RECURSIVE BeforeFirstLabel(_)
BeforeFirstLabel(t) ==
    IF t = <<>> \/ Head(t) \in ActionLabels THEN <<>>
    ELSE <<Head(t)>> \o BeforeFirstLabel(Tail(t))

\* .replace(/\s+/g, ' ')
RECURSIVE CollapseBlanks(_)
CollapseBlanks(t) ==
    IF Len(t) <= 1 THEN t
    ELSE IF Head(t) = Blank /\ Head(Tail(t)) = Blank THEN CollapseBlanks(Tail(t))
    ELSE <<Head(t)>> \o CollapseBlanks(Tail(t))

\* .trim()
RECURSIVE TrimLeft(_)
TrimLeft(t) == IF t # <<>> /\ Head(t) = Blank THEN TrimLeft(Tail(t)) ELSE t

RECURSIVE TrimRight(_)
TrimRight(t) ==
    IF t # <<>> /\ t[Len(t)] = Blank THEN TrimRight(SubSeq(t, 1, Len(t) - 1)) ELSE t

Trim(t) == TrimRight(TrimLeft(t))

\* (parts[0] || t): an empty parts[0] is falsy, so the whole text is taken
PrefixOrAll(parts0, t) == IF parts0 = <<>> THEN t ELSE parts0

\* cleanText of scrapeFacebookPage
cleanText(t) ==
    IF t = <<>> THEN <<>>
    ELSE LET t1 == ReplaceSeeMore(t, <<Blank>>)
         IN  Trim(CollapseBlanks(PrefixOrAll(BeforeFirstLabel(t1), t1)))

\* extractPostText of scrapeFacebookPageOptimized
extractPostText(t) ==
    LET t1 == ReplaceSeeMore(t, <<>>)
    IN  Trim(CollapseBlanks(PrefixOrAll(BeforeFirstLabel(t1), t1)))

----------------------------------------------------------------------------
(* Dates: a raw temporal expression is a record naming its shape.           *)
(*   kind "null"  : no expression (null)                                    *)
(*   kind "empty" : the empty string                                        *)
(*   kind "iso"   : matches /\d{4}-\d{2}-\d{2}T\d{2}:/: the date part is a    *)
(*                  day number (`valid` FALSE when it is no calendar date),  *)
(*                  then hour, minute, the seconds and fraction digits as    *)
(*                  written ("" when absent) and the zone designator ("Z",  *)
(*                  an offset, "" when absent: local time)                   *)
(*   kind "rel"   : <n><unit>, unit one of "h", "m", "d", "y"                *)
(*   kind "abs"   : <day> <mon> at <hour>:<minute> [period]                  *)
(*   kind "other" : none of the patterns                                    *)
(*   kind "instant" : a timestamp toISOString() printed for a Date built    *)
(*                  from `now` (relative and absolute branches)              *)
(* Month names are transliterated; the table is the `months` object.        *)

Months ==
    [yanayir |-> 0, fibrayir |-> 1, maris |-> 2, abril_hamza |-> 3, abril |-> 3,
     ayyar |-> 4, mayu |-> 4, yunyu |-> 5, yulyu |-> 6, aghustus_hamza |-> 7,
     aghustus |-> 7, sibtambir |-> 8, uktubar_hamza |-> 9, uktubar |-> 9,
     nufimbir |-> 10, disimbir |-> 11]

\* The unit token of the relative pattern a word starts with, "" when none:
\* the pattern ([0-9]+)\s*(unit) is not anchored after the unit, so a month name
\* whose first letter is the hour (sin), minute (dal) or day (ya) token matches it.
LeadingUnit(word) ==
    CASE word \in {"sibtambir"} -> "h"
      [] word \in {"disimbir"} -> "m"
      [] word \in {"yanayir", "yunyu", "yulyu"} -> "d"
      [] OTHER -> ""

\* An ISO date-time string
IsoString(date, hour, minute, sec, frac, zone) ==
    [kind |-> "iso", valid |-> TRUE, date |-> date, hour |-> hour, minute |-> minute,
     sec |-> sec, frac |-> frac, zone |-> zone]

\* Hours the zone designator of an ISO string is ahead of UTC; none: local time
ZoneHours(zone) ==
    CASE zone = "Z" -> 0
      [] zone = "+02:00" -> 2
      [] zone = "-05:00" -> 0 - 5
      [] OTHER -> tz

\* The milliseconds toISOString() prints for the fraction digits parsed
PadFraction(frac) ==
    CASE frac = "" -> "000"
      [] frac = "5" -> "500"
      [] frac = "12" -> "120"
      [] OTHER -> frac

\* new Date(s).toISOString() for a valid ISO string s: UTC, seconds and three
\* fraction digits always printed, zone Z
ToISOStringAsWritten(d) == d
ToISOString(d) ==
    LET hours == d.date * 24 + d.hour - ZoneHours(d.zone)
    IN  IsoString(hours \div 24, hours % 24, d.minute,
                  IF d.sec = "" THEN "00" ELSE d.sec, PadFraction(d.frac), "Z")

\* The timestamps toISOString() yields for a Date built from now: the local
\* fields of the Date (year relative to the current year)
InstantNowMinus(n, unit) == [kind |-> "instant", how |-> "now", n |-> n, unit |-> unit]
InstantAbs(year, month, day, hour, minute) ==
    [kind |-> "instant", how |-> "abs", year |-> year, month |-> month, day |-> day,
     hour |-> hour, minute |-> minute]

\* if (!dateStr) return null;
FalsyDate(d) == d.kind \in {"null", "empty"}

\* return isNaN(d.getTime()) ? null : d.toISOString();
IsoBranch(d) == IF d.valid THEN ToISOString(d) ELSE NoValue

\* const rel = s.match(/([0-9]+)\s*(unit)/i)
RelMatch(d) ==
    CASE d.kind = "rel" -> [n |-> d.n, unit |-> d.unit]
      [] d.kind = "abs" /\ LeadingUnit(d.mon) # "" -> [n |-> d.day, unit |-> LeadingUnit(d.mon)]
      [] OTHER -> NoValue

\* Days of a month of the current year
DaysIn(month) ==
    CASE month = 1 -> (IF now.leap THEN 29 ELSE 28)
      [] month \in {3, 5, 8, 10} -> 30
      [] OTHER -> 31

\* d.setMonth(month) on today's date: a day the month does not have rolls over
SetMonth(month) ==
    IF now.day > DaysIn(month)
    THEN [year |-> 0, month |-> month + 1, day |-> now.day - DaysIn(month)]
    ELSE [year |-> 0, month |-> month, day |-> now.day]

\* d.setDate(day), day in 0..31: day 0 is the last day of the month before, a day
\* the month does not have rolls over into the next
SetDate(date, day) ==
    IF day = 0
    THEN (IF date.month = 0
          THEN [year |-> date.year - 1, month |-> 11, day |-> 31]
          ELSE [year |-> date.year, month |-> date.month - 1, day |-> DaysIn(date.month - 1)])
    ELSE IF day > DaysIn(date.month)
    THEN (IF date.month = 11
          THEN [year |-> date.year + 1, month |-> 0, day |-> day - 31]
          ELSE [year |-> date.year, month |-> date.month + 1, day |-> day - DaysIn(date.month)])
    ELSE [year |-> date.year, month |-> date.month, day |-> day]

\* the absolute branch: months[monName], hour % 12, PM adds 12, then
\* new Date(), setMonth, setDate, setHours
AbsBranch(d) ==
    IF d.kind = "abs" /\ d.mon \in DOMAIN Months
    THEN LET date == SetDate(SetMonth(Months[d.mon]), d.day)
         IN  InstantAbs(date.year, date.month, date.day,
                        (d.hour % 12) + (IF d.period = "pm" THEN 12 ELSE 0), d.minute)
    ELSE NoValue

\* A timestamp toISOString() printed is ISO-like and is returned as it is
parseDateToISO(d) ==
    IF FalsyDate(d) THEN NoValue
    ELSE IF d.kind = "iso" THEN IsoBranch(d)
    ELSE IF d.kind = "instant" THEN d
    ELSE IF RelMatch(d) # NoValue THEN InstantNowMinus(RelMatch(d).n, RelMatch(d).unit)
    ELSE AbsBranch(d)

----------------------------------------------------------------------------
(* Extraction, deduplication and enrichment *)

\* nodes.map(article => ({ text: cleanText(innerText), date: extractDate(article) }))
MapArticles(nodes) ==
    [k \in 1..Len(nodes) |-> [text |-> cleanText(nodes[k].text), date |-> nodes[k].date]]

\* .filter((p) => p.text && p.text.length > 0)
NonEmptyText(p) == p.text # <<>> /\ StrLen(p.text) > 0

\* if (!seen.has(key)) { seen.add(key); unique.push(p); }
SeenNever(seen, key) == FALSE
SeenHas(seen, key) == key \in seen

\* const seen = new Set(); const unique = []; for (const p of arr) ...
RECURSIVE UniqueFrom(_, _)
UniqueFrom(arr, seen) ==
    IF arr = <<>> THEN <<>>
    ELSE LET p == Head(arr) IN
         IF SeenHas(seen, p.text)
         THEN UniqueFrom(Tail(arr), seen)
         ELSE <<p>> \o UniqueFrom(Tail(arr), seen \cup {p.text})

\* The callback of page.$$eval('div[role="article"]', ...) in scrapeFacebookPage
ExtractMain(nodes) == UniqueFrom(SelectSeq(MapArticles(nodes), NonEmptyText), {})

\* The callback of page.$$eval in scrapeFacebookPageOptimized (map, then filter)
\* The integers /\b(\d+)\b/g finds after the total-interactions label of an
\* article (none when the label is absent), and the number in the first
\* aria-label naming the metric (0 when there is none: the function returns 0)
NumbersOf(article) == IF "numbers" \in DOMAIN article THEN article.numbers ELSE <<>>
AriaOf(article, metric) == IF "aria" \in DOMAIN article THEN article.aria[metric] ELSE 0

\* extractEngagement(article, metric): four numbers are reactions, emoji count,
\* comments, shares; two or three are reactions, comments; one is reactions
extractEngagement(article, metric) ==
    LET numbers == NumbersOf(article) IN
    IF Len(numbers) >= 4
    THEN (CASE metric = "reactions" -> numbers[1]
            [] metric = "comments" -> numbers[3]
            [] OTHER -> numbers[4])
    ELSE IF Len(numbers) >= 2
    THEN (CASE metric = "reactions" -> numbers[1]
            [] metric = "comments" -> numbers[2]
            [] OTHER -> 0)
    ELSE IF Len(numbers) = 1 /\ metric = "reactions" THEN numbers[1]
    ELSE AriaOf(article, metric)

OptMap(nodes) ==
    [k \in 1..Len(nodes) |->
        LET text == extractPostText(nodes[k].text)
            reactions == extractEngagement(nodes[k], "reactions")
            comments == extractEngagement(nodes[k], "comments")
            shares == extractEngagement(nodes[k], "shares")
        IN
        [id |-> k,
         text |-> IF text = <<>> THEN <<"N/A">> ELSE text,
         reactions |-> reactions,
         comments |-> comments,
         shares |-> shares,
         total_engagement |-> reactions + comments + shares,
         date |-> IF nodes[k].date.kind \in {"null", "empty"} THEN NoValue ELSE nodes[k].date]]

OptKeep(p) == p.text # <<>> /\ p.text # <<"N/A">> /\ StrLen(p.text) > 5

ExtractOpt(nodes) == SelectSeq(OptMap(nodes), OptKeep)

\* arr.slice(0, n) for n >= 0
SliceNone(arr, n) == arr
Slice(arr, n) == SubSeq(arr, 1, Min(n, Len(arr)))

\* dateISO: parseDateToISO(p.date) || null
DateISONow(p) == IF parseDateToISO(p.date) = NoValue THEN InstantNowMinus(0, "h") ELSE parseDateToISO(p.date)
DateISO(p) == parseDateToISO(p.date)

\* posts.slice(0, POSTS_TARGET).map((p) => ({ ...p, dateISO: ... }))
Enrich(ps) ==
    LET cut == Slice(ps, POSTS_TARGET)
    IN  [k \in 1..Len(cut) |-> [text |-> cut[k].text, date |-> cut[k].date, dateISO |-> DateISO(cut[k])]]

\* const result = { ..., posts: enrichedPosts, meta: { postsTarget, loadedArticles } }
ResultMainEnrichedCount(ps) ==
    [kind |-> "result",
     posts |-> Enrich(ps),
     meta |-> [postsTarget |-> POSTS_TARGET, loadedArticles |-> Len(Enrich(ps))]]
ResultMain(ps) ==
    [kind |-> "result",
     posts |-> Enrich(ps),
     meta |-> [postsTarget |-> POSTS_TARGET, loadedArticles |-> Len(ps)]]

\* const result = { page, posts: posts.slice(0, POSTS_TARGET), summary, scraped_at }
\* posts.reduce((sum, p) => sum + p[metric], 0)
RECURSIVE SumOf(_, _)
SumOf(ps, metric) == IF ps = <<>> THEN 0 ELSE Head(ps)[metric] + SumOf(Tail(ps), metric)

\* posts.length > 0 ? Math.round(sum / posts.length) : 0, for sum >= 0
AvgOf(ps, metric) ==
    IF Len(ps) > 0 THEN (2 * SumOf(ps, metric) + Len(ps)) \div (2 * Len(ps)) ELSE 0

\* posts.reduce((best, p) => p.total_engagement > best.total_engagement ? p : best)
RECURSIVE BestFrom(_, _)
BestFrom(best, ps) ==
    IF ps = <<>> THEN best
    ELSE BestFrom(IF Head(ps).total_engagement > best.total_engagement THEN Head(ps) ELSE best,
                  Tail(ps))

\* const summary = {...}: computed from posts
Summary(ps) ==
    [total_posts |-> Len(ps),
     total_reactions |-> SumOf(ps, "reactions"),
     total_comments |-> SumOf(ps, "comments"),
     total_shares |-> SumOf(ps, "shares"),
     avg_reactions |-> AvgOf(ps, "reactions"),
     avg_comments |-> AvgOf(ps, "comments"),
     avg_shares |-> AvgOf(ps, "shares"),
     best_post |-> IF Len(ps) > 0 THEN BestFrom(Head(ps), Tail(ps)) ELSE NoValue]

ResultOpt(ps) ==
    [kind |-> "result",
     posts |-> Slice(ps, POSTS_TARGET),
     summary |-> Summary(ps)]

\* The articles in the DOM when they are read
Nodes == SubSeq(source, 1, loaded)

----------------------------------------------------------------------------
(* The run after navigation: load loop, extra safety scroll, extraction, result *)

\* maxScrolls of the extra safety scroll
SafetyMaxScrolls == 5

\* scrollPageToBottom: one window.scrollTo of the extra safety scroll; the page
\* may render more articles; `finished` is the page's answer
SafetyScroll ==
    /\ pc = "safety"
    /\ safetyScrolls < SafetyMaxScrolls
    /\ \E n \in Revealed : loaded' = n
    /\ \E finished \in BOOLEAN :
          IF finished \/ safetyScrolls + 1 >= SafetyMaxScrolls
          THEN pc' = "extract" /\ safetyScrolls' = 0
          ELSE pc' = pc /\ safetyScrolls' = safetyScrolls + 1
    /\ UNCHANGED <<i, lastCount, stalls, exit, scrolls, changed, stalledOnce, exitCount,
                   posts, result, cfgVars, fnVars, concVars, navVars, procVars>>

\* const posts = await page.$$eval('div[role="article"]', ...)
Extract ==
    /\ pc = "extract"
    /\ posts' = IF variant = "main" THEN ExtractMain(Nodes) ELSE ExtractOpt(Nodes)
    /\ pc' = "build"
    /\ UNCHANGED <<i, lastCount, stalls, exit, scrolls, loaded, changed, stalledOnce, exitCount,
                   safetyScrolls, result, cfgVars, fnVars, concVars, navVars, procVars>>

\* enrichedPosts, result, return result
Build ==
    /\ pc = "build"
    /\ result' = IF variant = "main" THEN ResultMain(posts) ELSE ResultOpt(posts)
    /\ pc' = "done"
    /\ UNCHANGED <<i, lastCount, stalls, exit, scrolls, loaded, changed, stalledOnce, exitCount,
                   safetyScrolls, posts, cfgVars, fnVars, concVars, navVars, procVars>>

\* A page call of the safety scroll or of the extraction rejects
RunThrow ==
    /\ pc \in {"safety", "extract"}
    /\ pc' = "thrown"
    /\ safetyScrolls' = 0
    /\ UNCHANGED <<i, lastCount, stalls, exit, scrolls, loaded, changed, stalledOnce, exitCount,
                   posts, result, cfgVars, fnVars, concVars, navVars, procVars>>

(* Inputs of the run *)

MaxArticles == 2     \* articles of a page in the run specification (all pages up to it)
RunStallLimit == 1   \* SCROLL_STALL_LIMIT of the run specification
RunMaxLoops == 2     \* SCROLL_MAX_LOOPS of the run specification
E2EItems == 12       \* articles of the end-to-end page
E2ETarget == 10      \* POSTS_TARGET of the end-to-end run

RelDate == [kind |-> "rel", n |-> 3, unit |-> "h"]
AbsDate == [kind |-> "abs", day |-> 14, mon |-> "aghustus", hour |-> 6, minute |-> 0, period |-> "pm"]

\* Articles as the page renders them: innerText and the date expression extractDate finds
Articles ==
    { [text |-> <<"a">>, date |-> RelDate],
      [text |-> <<"a", " ", "Like", "b">>, date |-> [kind |-> "other"]],
      [text |-> <<"See more">>, date |-> [kind |-> "empty"]],
      [text |-> <<"Like", "a">>, date |-> AbsDate],
      [text |-> <<"longword", " ", "See more", " ", "b">>, date |-> NoValue] }

\* Three-article pages: a text, the same text again, another text; and three
\* different texts with a parsable, an unparsable and no date expression
LongerSources ==
    { << [text |-> <<"a">>, date |-> RelDate],
         [text |-> <<"a", " ", "Like", "b">>, date |-> [kind |-> "other"]],
         [text |-> <<"longword", " ", "See more", " ", "b">>, date |-> NoValue] >>,
      << [text |-> <<"Like", "a">>, date |-> AbsDate],
         [text |-> <<"a", " ", "Like", "b">>, date |-> [kind |-> "other"]],
         [text |-> <<"longword", " ", "See more", " ", "b">>, date |-> NoValue] >>,
      << [text |-> <<"longword", " ", "See more", " ", "b">>, date |-> NoValue],
         [text |-> <<"See more">>, date |-> [kind |-> "empty"]],
         [text |-> <<"longword", " ", "See more", " ", "b">>, date |-> NoValue] >> }

Sources == UNION {[1..n -> Articles] : n \in 0..MaxArticles} \cup LongerSources

\* The pages of the optimized run: a short text, an expand label alone, a long text
OptArticles == {a \in Articles : a.date.kind \in {"rel", "empty", "null"}}

OptSources ==
    UNION {[1..n -> OptArticles] : n \in 0..MaxArticles}
        \cup {src \in LongerSources : \A k \in 1..Len(src) : src[k] \in OptArticles}

\* Twelve articles with pairwise distinct, non-empty text
E2ESource == [k \in 1..E2EItems |-> [text |-> [j \in 1..k |-> "a"], date |-> NoValue]]

InitRun ==
    /\ \/ /\ variant = "main"
          /\ POSTS_TARGET \in 0..MaxTarget
          /\ SCROLL_STALL_LIMIT = RunStallLimit
          /\ SCROLL_MAX_LOOPS = RunMaxLoops
          /\ pageShrinks = FALSE
          /\ source \in Sources
       \/ /\ variant = "opt"
          /\ POSTS_TARGET \in 0..MaxTarget
          /\ SCROLL_STALL_LIMIT = OptStallLimit
          /\ SCROLL_MAX_LOOPS = OptMaxLoops
          /\ pageShrinks = FALSE
          /\ source \in OptSources
       \/ /\ variant = "main"
          /\ POSTS_TARGET = E2ETarget
          /\ SCROLL_STALL_LIMIT = RunStallLimit
          /\ SCROLL_MAX_LOOPS = E2EItems
          /\ pageShrinks \in BOOLEAN
          /\ source = E2ESource
    /\ loaded = 0
    /\ InitLoadState
    /\ InitRunIdle
    /\ InitNavIdle
    /\ InitFnIdle
    /\ InitConcIdle
    /\ InitProcIdle

Next ==
    \/ LoadScroll \/ LoadCeiling \/ LoadCount \/ LoadThrow \/ LoadReturn
    \/ SafetyScroll \/ Extract \/ Build \/ RunThrow

Spec == InitRun /\ [][Next]_vars

----------------------------------------------------------------------------
(* scrapeFacebookPageOptimized on pages whose articles carry engagement      *)
(* figures: load loop, extraction, summary, result                           *)

MaxPosts == 3        \* articles of a page in the summary specification

\* Articles: a long text with the four numbers of the total-interactions line,
\* a long text with two numbers, a short text (filtered out) with one number,
\* a long text with figures in aria-labels only
SummaryArticles ==
    { [text |-> <<"longword", " ", "b">>, date |-> NoValue, numbers |-> <<5, 5, 2, 1>>],
      [text |-> <<"longword">>, date |-> NoValue, numbers |-> <<3, 1>>],
      [text |-> <<"a">>, date |-> NoValue, numbers |-> <<9>>],
      [text |-> <<"longword", " ", "a">>, date |-> NoValue,
       aria |-> [reactions |-> 2, comments |-> 0, shares |-> 4]] }

SummarySources == UNION {[1..n -> SummaryArticles] : n \in 0..MaxPosts}

InitSummary ==
    /\ variant = "opt"
    /\ POSTS_TARGET \in 0..MaxTarget
    /\ SCROLL_STALL_LIMIT = OptStallLimit
    /\ SCROLL_MAX_LOOPS = OptMaxLoops
    /\ pageShrinks = FALSE
    /\ source \in SummarySources
    /\ loaded = 0
    /\ InitLoadState
    /\ InitRunIdle
    /\ InitNavIdle
    /\ InitFnIdle
    /\ InitConcIdle
    /\ InitProcIdle

\* The page never has OptMaxLoops iterations without OptStallLimit stalls in a
\* row, and the optimized scraper has no safety scroll
NextSummary ==
    \/ LoadScroll \/ LoadCount \/ LoadThrow \/ LoadReturn
    \/ Extract \/ Build \/ RunThrow

SpecSummary == InitSummary /\ [][NextSummary]_vars

----------------------------------------------------------------------------
(* gotoWithRetry *)

MaxRetries == 4      \* largest maxRetries

\* What page.goto can reject with
Errors == {"timeout", "net", "detached"}

\* for (let i = 0; i < maxRetries; i++)
NavGuard == navI < maxRetries

\* if (i === maxRetries - 1) throw err;
IsLastAttemptOffByOne == navI = maxRetries
IsLastAttempt == navI = maxRetries - 1

\* return await page.goto(url, options): the call resolves
NavGotoOk ==
    /\ navPc = "loop"
    /\ NavGuard
    /\ attempts' = Append(attempts, "ok")
    /\ navPc' = "returned"
    /\ UNCHANGED <<maxRetries, navI, thrown, sleeps, cand, navFailed, loadVars, cfgVars, fnVars, concVars, runVars, procVars>>

\* page.goto rejects with err: rethrown on the last attempt, else warn and sleep
NavGotoFail ==
    /\ navPc = "loop"
    /\ NavGuard
    /\ \E err \in Errors :
          /\ attempts' = Append(attempts, err)
          /\ IF IsLastAttempt
             THEN navPc' = "thrown" /\ thrown' = err
             ELSE navPc' = "sleep" /\ thrown' = thrown
    /\ UNCHANGED <<maxRetries, navI, sleeps, cand, navFailed, loadVars, cfgVars, fnVars, concVars, runVars, procVars>>

\* 1000 * (i + 1)
BackoffMsFromZero(idx) == 1000 * idx
BackoffMs(idx) == 1000 * (idx + 1)

\* await sleep(1000 * (i + 1)), then i++
NavSleep ==
    /\ navPc = "sleep"
    /\ sleeps' = Append(sleeps, BackoffMs(navI))
    /\ navI' = navI + 1
    /\ navPc' = "loop"
    /\ UNCHANGED <<maxRetries, attempts, thrown, cand, navFailed, loadVars, cfgVars, fnVars, concVars, runVars, procVars>>

\* The loop ends without a return or a throw: the function returns undefined
NavFallThrough ==
    /\ navPc = "loop"
    /\ ~NavGuard
    /\ navPc' = "returned"
    /\ UNCHANGED <<maxRetries, navI, attempts, thrown, sleeps, cand, navFailed, loadVars, cfgVars, fnVars, concVars, runVars, procVars>>

InitNav ==
    /\ maxRetries \in 0..MaxRetries
    /\ navI = 0
    /\ navPc = "loop"
    /\ attempts = <<>>
    /\ thrown = "none"
    /\ sleeps = <<>>
    /\ cand = 0
    /\ navFailed = {}
    /\ variant = "main"
    /\ POSTS_TARGET = 0
    /\ SCROLL_STALL_LIMIT = 0
    /\ SCROLL_MAX_LOOPS = 0
    /\ pageShrinks = FALSE
    /\ source = <<>>
    /\ loaded = 0
    /\ InitLoadState
    /\ InitRunIdle
    /\ InitFnIdle
    /\ InitConcIdle
    /\ InitProcIdle

NextNav == NavGotoOk \/ NavGotoFail \/ NavSleep \/ NavFallThrough

SpecNav == InitNav /\ [][NextNav]_vars

----------------------------------------------------------------------------
(* scrapeFacebookPage from its first navigation on: the main page, the      *)
(* posts-tab candidates, the DOM click, the counts, the about page, then    *)
(* the load loop and the rest of the run                                    *)

\* gotoWithRetry(page, url, options, maxRetries = 3): the callers pass no maxRetries
DefaultMaxRetries == 3

\* const postTabCandidates = [`${base}?sk=posts`, `${base}/posts`]
PostTabCandidates == <<"posts1", "posts2">>

\* The navigation the run is at
CurrentNav ==
    CASE pc = "navMain" -> "main"
      [] pc = "navPosts" -> PostTabCandidates[cand]
      [] pc = "navAbout" -> "about"
      [] OTHER -> "none"

\* Is the gotoWithRetry call of this navigation inside a try whose catch only warns:
\* the posts-tab candidates and the about page are, the main page is not
CaughtAll(nav) == TRUE
Caught(nav) == nav \in {"posts1", "posts2", "about"}

\* Where the run goes when a posts-tab candidate did not give articles
AfterCandidate == IF cand < Len(PostTabCandidates) THEN "navPosts" ELSE "dom"

\* await gotoWithRetry(...): the call starts
NavCall ==
    /\ pc \in {"navMain", "navPosts", "navAbout"}
    /\ navPc = "idle"
    /\ navPc' = "loop"
    /\ maxRetries' = DefaultMaxRetries
    /\ navI' = 0
    /\ UNCHANGED <<attempts, thrown, sleeps, cand, navFailed, loadVars, cfgVars, fnVars, concVars, runVars, procVars>>

\* gotoWithRetry resolved; a posts-tab candidate then counts the articles
\* (hasArticles), and a rejection of that $$eval is caught like a failed navigation
NavReturn ==
    /\ navPc = "returned"
    /\ \/ /\ pc = "navMain"
          /\ pc' = "navPosts"
          /\ cand' = 1
       \/ /\ pc = "navPosts"
          /\ \E hasArticles \in 0..1 :
                IF hasArticles > 0
                THEN pc' = "counts" /\ cand' = 0
                ELSE pc' = AfterCandidate /\ cand' = (IF AfterCandidate = "dom" THEN 0 ELSE cand + 1)
       \/ /\ pc = "navAbout"
          /\ pc' = "loop"
          /\ cand' = cand
    /\ navPc' = "idle" /\ maxRetries' = 0 /\ navI' = 0
    /\ attempts' = <<>> /\ sleeps' = <<>>
    /\ UNCHANGED <<thrown, navFailed, i, lastCount, stalls, exit, scrolls, loaded, changed,
                   stalledOnce, exitCount, cfgVars, fnVars, concVars, runVars, procVars>>

\* gotoWithRetry threw: a caught navigation is logged and the run goes on, any
\* other ends the run (the outer catch logs and rethrows)
NavThrown ==
    /\ navPc = "thrown"
    /\ pc \in {"navMain", "navPosts", "navAbout"}
    /\ navFailed' = navFailed \cup {CurrentNav}
    /\ IF Caught(CurrentNav)
       THEN /\ pc' = (IF pc = "navAbout" THEN "loop" ELSE AfterCandidate)
            /\ cand' = (IF pc = "navPosts" /\ AfterCandidate = "navPosts" THEN cand + 1 ELSE 0)
            /\ thrown' = "none"
       ELSE /\ pc' = "thrown"
            /\ cand' = 0
            /\ thrown' = thrown
    /\ navPc' = "idle" /\ maxRetries' = 0 /\ navI' = 0
    /\ attempts' = <<>> /\ sleeps' = <<>>
    /\ UNCHANGED <<i, lastCount, stalls, exit, scrolls, loaded, changed,
                   stalledOnce, exitCount, cfgVars, fnVars, concVars, runVars, procVars>>

\* if (!navigatedToPosts) { try { click a Posts tab ... } catch { warn } }
DomClick ==
    /\ pc = "dom"
    /\ pc' = "counts"
    /\ UNCHANGED <<i, lastCount, stalls, exit, scrolls, loaded, changed,
                   stalledOnce, exitCount, cfgVars, fnVars, concVars, runVars, navVars, procVars>>

\* Page title, followers and likes; the about page is opened when followers are
\* missing or below 50; page.evaluate or browser.newPage rejecting ends the run
Counts ==
    /\ pc = "counts"
    /\ \/ \E needAbout \in BOOLEAN : pc' = (IF needAbout THEN "navAbout" ELSE "loop")
       \/ pc' = "thrown"
    /\ UNCHANGED <<i, lastCount, stalls, exit, scrolls, loaded, changed,
                   stalledOnce, exitCount, cfgVars, fnVars, concVars, runVars, navVars, procVars>>

InitScrape ==
    /\ variant = "main"
    /\ POSTS_TARGET \in 0..MaxTarget
    /\ SCROLL_STALL_LIMIT = RunStallLimit
    /\ SCROLL_MAX_LOOPS = RunMaxLoops
    /\ pageShrinks = FALSE
    /\ source \in LongerSources
    /\ loaded = 0
    /\ pc = "navMain"
    /\ i = 0 /\ lastCount = 0 /\ stalls = 0 /\ exit = "none" /\ scrolls = 0
    /\ changed = FALSE /\ stalledOnce = FALSE /\ exitCount = 0
    /\ InitRunIdle
    /\ InitNavIdle
    /\ InitFnIdle
    /\ InitConcIdle
    /\ InitProcIdle

NextScrape ==
    \/ NavCall \/ NavGotoOk \/ NavGotoFail \/ NavSleep \/ NavReturn \/ NavThrown
    \/ DomClick \/ Counts
    \/ LoadScroll \/ LoadCeiling \/ LoadCount \/ LoadThrow \/ LoadReturn
    \/ SafetyScroll \/ Extract \/ Build \/ RunThrow

SpecScrape == InitScrape /\ [][NextScrape]_vars

----------------------------------------------------------------------------
(* parseCount.  A text is a sequence of characters; the Arabic-Indic digit    *)
(* three, decimal separator (U+066B) and thousands separator (U+066C) are     *)
(* "ar3", "ar_dec", "ar_sep"; an Arabic magnitude word is one atom ("alf"     *)
(* thousand, "milyun" million, "milyar" milliard), all its letters being      *)
(* outside \w; "x" is any other Latin letter.                                  *)

MaxText == 3         \* longest text of the exhaustive inputs of parseCount

Num(n) == [kind |-> "number", value |-> n]

Digits == {"0", "1", "2", "3", "5"}

DigitVal(c) ==
    CASE c = "0" -> 0 [] c = "1" -> 1 [] c = "2" -> 2 [] c = "3" -> 3 [] c = "5" -> 5

\* normalizeArabicDigits and toLowerCase, character by character
NormalizeChar(c) ==
    CASE c = "ar3" -> "3"
      [] c = "K" -> "k"
      [] c = "M" -> "m"
      [] c = "B" -> "b"
      [] OTHER -> c

\* .replace(/٫/g, '.').replace(/٬/g, '')
RECURSIVE ReplaceSeparators(_)
ReplaceSeparators(t) ==
    IF t = <<>> THEN <<>>
    ELSE (CASE Head(t) = "ar_dec" -> <<".">>
            [] Head(t) = "ar_sep" -> <<>>
            [] OTHER -> <<Head(t)>>) \o ReplaceSeparators(Tail(t))

\* let s = normalizeArabicDigits(String(text)).trim().toLowerCase(), separators replaced
NormalizeCountText(text) ==
    ReplaceSeparators(Trim([k \in 1..Len(text) |-> NormalizeChar(text[k])]))

\* \w of a regular expression without the u flag: ASCII letters and digits
IsWordChar(c) == c \in Digits \cup {"k", "m", "b", "x"}

\* \b between positions p and p + 1 of s (p = 0: the start, p = Len(s): the end)
WordBoundary(s, p) ==
    LET left == p >= 1 /\ IsWordChar(s[p])
        right == p + 1 <= Len(s) /\ IsWordChar(s[p + 1])
    IN  left # right

\* /\b(w1|w2)\b/.test(s) for words that are one atom each
HasWord(s, words) ==
    \E p \in 1..Len(s) : s[p] \in words /\ WordBoundary(s, p - 1) /\ WordBoundary(s, p)

\* The if / else if chain that sets factor
Factor(s) ==
    IF HasWord(s, {"alf"}) THEN 1000
    ELSE IF HasWord(s, {"milyun"}) THEN 1000000
    ELSE IF HasWord(s, {"milyar"}) THEN 1000000000
    ELSE IF HasWord(s, {"k"}) THEN 1000
    ELSE IF HasWord(s, {"m"}) THEN 1000000
    ELSE IF HasWord(s, {"b"}) THEN 1000000000
    ELSE 1

\* Position of the first digit of s, 0 when there is none
FirstDigit(s) ==
    IF \E p \in 1..Len(s) : s[p] \in Digits
    THEN CHOOSE p \in 1..Len(s) : s[p] \in Digits /\ \A q \in 1..(p - 1) : s[q] \notin Digits
    ELSE 0

\* Last position of the run of digits that starts at p
RunEnd(s, p) ==
    CHOOSE q \in p..Len(s) :
        /\ \A r \in p..q : s[r] \in Digits
        /\ (q = Len(s) \/ s[q + 1] \notin Digits)

\* The number the digits s[p..q] spell
RECURSIVE DigitsValue(_, _, _)
DigitsValue(s, p, q) ==
    IF q < p THEN 0 ELSE 10 * DigitsValue(s, p, q - 1) + DigitVal(s[q])

RECURSIVE Pow10(_)
Pow10(n) == IF n = 0 THEN 1 ELSE 10 * Pow10(n - 1)

\* s.match(/([0-9]+(?:\.[0-9]+)?)/): the first numeric token as mantissa / 10^decimals
FirstNumericToken(s) ==
    LET p == FirstDigit(s)
        q == RunEnd(s, p)
        hasFraction == q + 2 <= Len(s) /\ s[q + 1] = "." /\ s[q + 2] \in Digits
        r == RunEnd(s, q + 2)
    IN  IF p = 0 THEN NoValue
        ELSE IF hasFraction
        THEN [mantissa |-> DigitsValue(s, p, q) * Pow10(r - q - 1) + DigitsValue(s, q + 2, r),
              decimals |-> r - q - 1]
        ELSE [mantissa |-> DigitsValue(s, p, q), decimals |-> 0]

\* Math.round(num * factor) for num = mantissa / 10^decimals, num >= 0
RoundScaled(tok, factor) ==
    LET scaled == tok.mantissa * factor
        unit == Pow10(tok.decimals)
    IN  (scaled \div unit) + (IF 2 * (scaled % unit) >= unit THEN 1 ELSE 0)

parseCount(text) ==
    IF text = <<>> THEN NoValue
    ELSE LET s == NormalizeCountText(text)
             m == FirstNumericToken(s)
         IN  IF m = NoValue THEN NoValue
             ELSE Num(RoundScaled(m, Factor(s)))

\* Characters of the exhaustive inputs
CountChars == {"1", "5", "0", ".", ",", " ", "k", "M", "x", "alf"}

\* Longer inputs, the documented ones among them ("2.3K", "1M")
CountExamples ==
    { <<"1", ".", "5", "k">>, <<"1", ".", "5", " ", "k">>, <<"2", ",", "3", "0", "0">>,
      <<"2", "3", "0", "0">>, <<"2", ".", "3", "K">>, <<"1", "M">>, <<"2", "ar_dec", "3", " ", "alf">>,
      <<"2", "ar_sep", "3", "0", "0">>, <<"ar3", " ", "k">>, <<"1", "milyun", "1">>,
      <<"x", " ", "2", ".", "5", "5", " ", "m">>, <<"1", "milyar", "1">>, <<" ", "2", " ", "B", " ">> }

CountTexts == UNION {[1..n -> CountChars] : n \in 0..MaxText} \cup CountExamples

\* The state of a run that is not started, for the specifications of the utilities
InitNoRun ==
    /\ variant = "main"
    /\ POSTS_TARGET = 0
    /\ SCROLL_STALL_LIMIT = 0
    /\ SCROLL_MAX_LOOPS = 0
    /\ pageShrinks = FALSE
    /\ source = <<>>
    /\ loaded = 0
    /\ InitLoadState
    /\ InitRunIdle
    /\ InitNavIdle
    /\ InitConcIdle
    /\ InitProcIdle

InitCount ==
    /\ arg \in CountTexts
    /\ ret = NoValue
    /\ calls = 0
    /\ now = MidJune
    /\ tz = 0
    /\ InitNoRun

\* ret = parseCount(arg)
CallParseCount ==
    /\ calls = 0
    /\ ret' = parseCount(arg)
    /\ calls' = 1
    /\ UNCHANGED <<arg, now, tz, loadVars, cfgVars, concVars, runVars, navVars, procVars>>

NextCount == CallParseCount

SpecCount == InitCount /\ [][NextCount]_vars

----------------------------------------------------------------------------
(* parseDateToISO called on its own: inputs, current dates, time zones *)

IsoInputs ==
    {d \in [kind : {"iso"}, valid : BOOLEAN, date : {10}, hour : {0, 10, 23}, minute : {30},
            sec : {"", "00", "45"}, frac : {"", "000", "5", "12", "123"},
            zone : {"Z", "", "+02:00", "-05:00"}] :
        d.frac # "" => d.sec # ""}

\* "tishrin" is a month name the table does not have
AbsInputs ==
    [kind : {"abs"}, day : {0, 1, 14, 30, 31}, mon : DOMAIN Months \cup {"tishrin"},
     hour : {6, 12}, minute : {0}, period : {"am", "pm", ""}]

RelInputs == [kind : {"rel"}, n : {3}, unit : {"h", "m", "d", "y"}]

DateInputs ==
    IsoInputs \cup AbsInputs \cup RelInputs \cup {NoValue, [kind |-> "empty"], [kind |-> "other"]}

\* Current dates: mid-month, and ends of months
Nows ==
    { MidJune,
      [month |-> 0, day |-> 31, leap |-> FALSE],
      [month |-> 0, day |-> 30, leap |-> TRUE],
      [month |-> 2, day |-> 31, leap |-> FALSE],
      [month |-> 11, day |-> 31, leap |-> FALSE] }

TimeZones == {0, 2}

InitDate ==
    /\ arg \in DateInputs
    /\ ret = NoValue
    /\ calls = 0
    /\ now \in Nows
    /\ tz \in TimeZones
    /\ InitNoRun

\* ret = parseDateToISO(arg)
CallParseDate ==
    /\ calls = 0
    /\ ret' = parseDateToISO(arg)
    /\ calls' = 1
    /\ UNCHANGED <<arg, now, tz, loadVars, cfgVars, concVars, runVars, navVars, procVars>>

\* parseDateToISO applied to what it returned
CallParseDateAgain ==
    /\ calls = 1
    /\ ret # NoValue
    /\ arg' = ret
    /\ ret' = parseDateToISO(ret)
    /\ calls' = 2
    /\ UNCHANGED <<now, tz, loadVars, cfgVars, concVars, runVars, navVars, procVars>>

NextDate == CallParseDate \/ CallParseDateAgain

SpecDate == InitDate /\ [][NextDate]_vars

----------------------------------------------------------------------------
(* Overlapping runs: two calls of a scraper (two POST /api/scrape requests)   *)
(* interleaved at their awaits.  Each call launches its own browser (login),  *)
(* so each run has its own page; lastCount, stalls and i are let bindings of  *)
(* the call, the dedup set a const of the $$eval callback.                    *)

Runs == {1, 2}

\* The bindings run r reads and writes: those of its own call
FrameShared(r) == 1
Frame(r) == r

\* let lastCount = 0; let stalls = 0; for (let i = 0; ...
NewFrame == [i |-> 0, lastCount |-> 0, stalls |-> 0]

\* One pass of the loop body on bindings f with the count read: the bindings
\* after it and how the loop goes on ("none": next iteration)
LoopBody(f, count) ==
    IF count >= POSTS_TARGET THEN [frame |-> f, exit |-> "target"]
    ELSE LET st == IF count <= f.lastCount THEN f.stalls + 1 ELSE 0
             lc == IF variant = "main"
                   THEN (IF count <= f.lastCount THEN f.lastCount ELSE count)
                   ELSE count
         IN  IF st >= SCROLL_STALL_LIMIT
             THEN [frame |-> [i |-> f.i, lastCount |-> lc, stalls |-> st], exit |-> "stall"]
             ELSE [frame |-> [i |-> f.i + 1, lastCount |-> lc, stalls |-> st], exit |-> "none"]

\* The page of run r: the runs scrape different pages
PageOf(r) ==
    IF r = 1
    THEN << [text |-> <<"a">>, date |-> RelDate],
            [text |-> <<"a", " ", "Like", "b">>, date |-> NoValue] >>
    ELSE << [text |-> <<"longword", " ", "See more", " ", "b">>, date |-> NoValue],
            [text |-> <<"a">>, date |-> NoValue] >>

\* The call starts: its bindings are initialised
TwoStart(r) ==
    /\ conc[r].pc = "idle"
    /\ frames' = [frames EXCEPT ![Frame(r)] = NewFrame]
    /\ conc' = [conc EXCEPT ![r].pc = "loop"]
    /\ UNCHANGED <<loadVars, cfgVars, runVars, navVars, fnVars, procVars>>

\* await page.evaluate(scroll); await sleep(...)
TwoScroll(r) ==
    /\ conc[r].pc = "loop"
    /\ frames[Frame(r)].i < SCROLL_MAX_LOOPS
    /\ \E n \in (IF pageShrinks THEN 0..Len(PageOf(r)) ELSE conc[r].loaded..Len(PageOf(r))) :
          conc' = [conc EXCEPT ![r].pc = "count", ![r].loaded = n]
    /\ UNCHANGED <<frames, loadVars, cfgVars, runVars, navVars, fnVars, procVars>>

\* The loop head is false
TwoCeiling(r) ==
    /\ conc[r].pc = "loop"
    /\ ~(frames[Frame(r)].i < SCROLL_MAX_LOOPS)
    /\ conc' = [conc EXCEPT ![r].pc = "extract", ![r].exit = "ceiling"]
    /\ UNCHANGED <<frames, loadVars, cfgVars, runVars, navVars, fnVars, procVars>>

\* const count = await page.$$eval(...) and the rest of the loop body
TwoCount(r) ==
    /\ conc[r].pc = "count"
    /\ LET count == conc[r].loaded
           after == LoopBody(frames[Frame(r)], count)
       IN  /\ frames' = [frames EXCEPT ![Frame(r)] = after.frame]
           /\ conc' = [conc EXCEPT ![r].obs = Append(@, count),
                                   ![r].exit = after.exit,
                                   ![r].pc = IF after.exit = "none" THEN "loop" ELSE "extract"]
    /\ UNCHANGED <<loadVars, cfgVars, runVars, navVars, fnVars, procVars>>

\* const posts = await page.$$eval('div[role="article"]', ...): seen and unique
\* are made and used inside the callback
TwoExtract(r) ==
    /\ conc[r].pc = "extract"
    /\ LET nodes == SubSeq(PageOf(r), 1, conc[r].loaded)
       IN  conc' = [conc EXCEPT ![r].pc = "done",
                                ![r].posts = IF variant = "main" THEN ExtractMain(nodes)
                                             ELSE ExtractOpt(nodes)]
    /\ UNCHANGED <<frames, loadVars, cfgVars, runVars, navVars, fnVars, procVars>>

InitTwo ==
    /\ \/ /\ variant = "main"
          /\ SCROLL_STALL_LIMIT = RunStallLimit
          /\ SCROLL_MAX_LOOPS = RunMaxLoops
          /\ pageShrinks \in BOOLEAN
       \/ /\ variant = "opt"
          /\ SCROLL_STALL_LIMIT = OptStallLimit
          /\ SCROLL_MAX_LOOPS = OptMaxLoops
          /\ pageShrinks = FALSE
    /\ POSTS_TARGET \in 1..(Len(PageOf(1)) + 1)
    /\ source = <<>>
    /\ loaded = 0
    /\ InitLoadState
    /\ InitRunIdle
    /\ InitNavIdle
    /\ InitFnIdle
    /\ InitProcIdle
    /\ conc = [r \in Runs |-> [pc |-> "idle", loaded |-> 0, obs |-> <<>>, exit |-> "none", posts |-> <<>>]]
    /\ frames = [r \in Runs |-> NewFrame]

NextTwo ==
    \E r \in Runs : TwoStart(r) \/ TwoScroll(r) \/ TwoCeiling(r) \/ TwoCount(r) \/ TwoExtract(r)

SpecTwo == InitTwo /\ [][NextTwo]_vars

----------------------------------------------------------------------------
(* extractReactions and toNumber of scrapeFacebookPage.  An article is the    *)
(* record of what the three strategies find in it: `hasTotal` and `total`,    *)
(* the run of digit characters captured after the total-interactions label;   *)
(* `labels`, for each aria-label naming the metric the number captured in it  *)
(* ("" when it holds none); `spans`, the number captured in each span that    *)
(* holds a digit and goes with a metric word.  Captures are texts.            *)

MaxLabels == 2       \* most aria-labels, and most spans, of an article

\* Position of the first character of s at or after p that is not a blank
RECURSIVE SkipBlanks(_, _)
SkipBlanks(s, p) == IF p <= Len(s) /\ s[p] = Blank THEN SkipBlanks(s, p + 1) ELSE p

\* The numeric token ([0-9]+(?:\.[0-9]+)?) that starts at the digit at p, and where it ends
TokenAt(s, p) ==
    LET q == RunEnd(s, p)
        hasFraction == q + 2 <= Len(s) /\ s[q + 1] = "." /\ s[q + 2] \in Digits
        r == RunEnd(s, q + 2)
    IN  IF hasFraction
        THEN [mantissa |-> DigitsValue(s, p, q) * Pow10(r - q - 1) + DigitsValue(s, q + 2, r),
              decimals |-> r - q - 1, end |-> r]
        ELSE [mantissa |-> DigitsValue(s, p, q), decimals |-> 0, end |-> q]

\* Starts of a match of /([0-9]+(?:\.[0-9]+)?)\s*<suffix>/ in s
SuffixMatches(s, suffix) ==
    {p \in 1..Len(s) :
        /\ s[p] \in Digits
        /\ LET e == SkipBlanks(s, TokenAt(s, p).end + 1)
           IN  e <= Len(s) /\ s[e] = suffix}

\* s.replace(/[,\s]/g, '')
RemoveCommasAndBlanks(s) == SelectSeq(s, LAMBDA c : c \notin {",", Blank})

\* parseInt(s, 10) of a text without sign: the leading digits, NaN (null) without any
ParseInt(s) ==
    IF s = <<>> \/ s[1] \notin Digits THEN NoValue
    ELSE Num(DigitsValue(s, 1, RunEnd(s, 1)))

\* const toNumber = (raw) => ...
toNumber(raw) ==
    IF raw = <<>> THEN NoValue
    ELSE LET s == [k \in 1..Len(raw) |-> NormalizeChar(raw[k])]
             mK == SuffixMatches(s, "k")
             mM == SuffixMatches(s, "m")
             first(ps) == CHOOSE p \in ps : \A q \in ps : p <= q
         IN  IF mK # {} THEN Num(RoundScaled(TokenAt(s, first(mK)), 1000))
             ELSE IF mM # {} THEN Num(RoundScaled(TokenAt(s, first(mM)), 1000000))
             ELSE ParseInt(RemoveCommasAndBlanks(s))

\* for (const x of captures) { const val = toNumber(n); if (val != null) return val; }
RECURSIVE FirstNumber(_)
FirstNumber(captures) ==
    IF captures = <<>> THEN NoValue
    ELSE IF toNumber(Head(captures)) # NoValue THEN toNumber(Head(captures))
    ELSE FirstNumber(Tail(captures))

\* const extractReactions = (article) => ...: the total-interactions branch
\* returns toNumber(m[1]) whatever it is
extractReactions(article) ==
    IF article.hasTotal THEN toNumber(article.total)
    ELSE IF FirstNumber(article.labels) # NoValue THEN FirstNumber(article.labels)
    ELSE FirstNumber(article.spans)

\* Runs of [0-9,.] after the total-interactions label
TotalCaptures == { <<"1", "2">>, <<".">>, <<",">>, <<"1", ",", "2", "0", "0">>, <<"ar3">>, <<".", "5">> }

\* Numbers captured in an aria-label or a span: [0-9,.]+\s*[kKmM]?, "" when none
Captures ==
    { <<>>, <<"5">>, <<"1", ".", "5", "k">>, <<"2", " ", "M">>, <<",">>, <<"1", ",", "2", "0", "0">>,
      <<".", "5">> }

ReactArticles ==
    [hasTotal : BOOLEAN, total : TotalCaptures,
     labels : UNION {[1..n -> Captures] : n \in 0..MaxLabels},
     spans : UNION {[1..n -> Captures] : n \in 0..(MaxLabels - 1)}]

InitReact ==
    /\ arg \in ReactArticles
    /\ ret = NoValue
    /\ calls = 0
    /\ now = MidJune
    /\ tz = 0
    /\ InitNoRun

\* ret = extractReactions(arg)
CallExtractReactions ==
    /\ calls = 0
    /\ ret' = extractReactions(arg)
    /\ calls' = 1
    /\ UNCHANGED <<arg, now, tz, loadVars, cfgVars, runVars, navVars, concVars, procVars>>

NextReact == CallExtractReactions

SpecReact == InitReact /\ [][NextReact]_vars

----------------------------------------------------------------------------
(* The browser process of a run: login() launches it, the try block of the   *)
(* scraper works with it, the finally block closes what the scraper holds.   *)
(* Every await can reject; a rejection leaves the function it happens in.    *)

\* The one browser a run launches
BrowserId == 1

\* login(), after puppeteer.launch: the awaits that can reject
LoginSteps == <<"newPage", "setUserAgent", "home", "form">>

\* The awaits of the try block after login, in order
BodySteps ==
    IF variant = "main"
    THEN <<"navigate", "postsTab", "counts", "about", "load", "extract", "build">>
    ELSE <<"navigate", "title", "load", "extract", "build">>

\* The first statement of the finally block
FinallyStart == IF variant = "main" THEN "finAbout" ELSE "finPage"

restVars == <<i, lastCount, stalls, exit, scrolls, loaded, changed, stalledOnce, exitCount,
              cfgVars, runVars, navVars, fnVars, concVars>>

\* if (!FB_PAGE_URL) throw new Error(...), before the try block; else the try is entered
RunStart ==
    /\ pc = "start"
    /\ \/ pc' = "rethrown" /\ threwAt' = "options"
       \/ pc' = "login" /\ threwAt' = threwAt
    /\ UNCHANGED <<browser, page, aboutPage, launched, closes, step, restVars>>

\* login(): the credentials check and const browser = await puppeteer.launch(...)
LoginLaunch ==
    /\ pc = "login"
    /\ \/ /\ \E why \in {"credentials", "launch"} : threwAt' = why
          /\ pc' = FinallyStart
          /\ UNCHANGED <<launched, step>>
       \/ /\ launched' = launched \cup {BrowserId}
          /\ pc' = "session"
          /\ step' = 1
          /\ threwAt' = threwAt
    /\ UNCHANGED <<browser, page, aboutPage, closes, restVars>>

\* login() after the launch: browser.newPage(), setUserAgent, the home page, the
\* login form when the cookies did not log in, then return { browser, page }.
\* The scraper assigns browser and page from the returned object only.
LoginStep ==
    /\ pc = "session"
    /\ \/ /\ threwAt' = LoginSteps[step]
          /\ pc' = FinallyStart
          /\ UNCHANGED <<browser, page, step>>
       \/ /\ \E loggedIn \in BOOLEAN :
                IF step = Len(LoginSteps) \/ (LoginSteps[step] = "home" /\ loggedIn)
                THEN /\ browser' = BrowserId
                     /\ page' = BrowserId
                     /\ pc' = "body"
                     /\ step' = 1
                ELSE /\ step' = step + 1
                     /\ UNCHANGED <<browser, page, pc>>
          /\ threwAt' = threwAt
    /\ UNCHANGED <<aboutPage, launched, closes, restVars>>

\* One await of the try block: it rejects (catch logs and rethrows, finally runs)
\* or resolves; after the last one `return result` runs the finally block
BodyStep ==
    /\ pc = "body"
    /\ BodySteps[step] # "about"
    /\ \/ /\ threwAt' = BodySteps[step]
          /\ pc' = FinallyStart
          /\ step' = step
       \/ /\ threwAt' = threwAt
          /\ IF step = Len(BodySteps)
             THEN pc' = FinallyStart /\ step' = step
             ELSE pc' = pc /\ step' = step + 1
    /\ UNCHANGED <<browser, page, aboutPage, launched, closes, restVars>>

\* if (!followers || followers < 50) { aboutPage = await browser.newPage(); ...
AboutOpen ==
    /\ pc = "body"
    /\ BodySteps[step] = "about"
    /\ \/ /\ pc' = pc /\ step' = step + 1
          /\ UNCHANGED <<aboutPage, threwAt>>
       \/ /\ threwAt' = "about"
          /\ pc' = FinallyStart
          /\ UNCHANGED <<aboutPage, step>>
       \/ /\ aboutPage' = browser
          /\ pc' = "aboutClose"
          /\ UNCHANGED <<step, threwAt>>
    /\ UNCHANGED <<browser, page, launched, closes, restVars>>

\* ... try {...} catch {warn} finally { try { await aboutPage.close() } catch {warn}; aboutPage = null }
AboutClose ==
    /\ pc = "aboutClose"
    /\ \E ok \in BOOLEAN :
          closes' = Append(closes, [target |-> "aboutPage", of |-> aboutPage, ok |-> ok])
    /\ aboutPage' = 0
    /\ pc' = "body"
    /\ step' = step + 1
    /\ UNCHANGED <<browser, page, launched, threwAt, restVars>>

\* finally: if (aboutPage) { try { await aboutPage.close() } catch {warn} }
FinallyAbout ==
    /\ pc = "finAbout"
    /\ IF aboutPage # 0
       THEN \E ok \in BOOLEAN :
               closes' = Append(closes, [target |-> "aboutPage", of |-> aboutPage, ok |-> ok])
       ELSE closes' = closes
    /\ pc' = "finPage"
    /\ UNCHANGED <<browser, page, aboutPage, launched, step, threwAt, restVars>>

\* finally: if (page) { try { await page.close() } catch {warn} }
FinallyPage ==
    /\ pc = "finPage"
    /\ IF page # 0
       THEN \E ok \in BOOLEAN :
               closes' = Append(closes, [target |-> "page", of |-> page, ok |-> ok])
       ELSE closes' = closes
    /\ pc' = "finBrowser"
    /\ UNCHANGED <<browser, page, aboutPage, launched, step, threwAt, restVars>>

\* finally: if (browser) { try { await browser.close() } catch {error} }; then the
\* pending return or throw completes
FinallyBrowser ==
    /\ pc = "finBrowser"
    /\ IF browser # 0
       THEN \E ok \in BOOLEAN :
               closes' = Append(closes, [target |-> "browser", of |-> browser, ok |-> ok])
       ELSE closes' = closes
    /\ pc' = IF threwAt = "none" THEN "returned" ELSE "rethrown"
    /\ UNCHANGED <<browser, page, aboutPage, launched, step, threwAt, restVars>>

InitCleanup ==
    /\ variant \in {"main", "opt"}
    /\ POSTS_TARGET = 0
    /\ SCROLL_STALL_LIMIT = 0
    /\ SCROLL_MAX_LOOPS = 0
    /\ pageShrinks = FALSE
    /\ source = <<>>
    /\ loaded = 0
    /\ pc = "start"
    /\ i = 0
    /\ lastCount = 0
    /\ stalls = 0
    /\ exit = "none"
    /\ scrolls = 0
    /\ changed = FALSE
    /\ stalledOnce = FALSE
    /\ exitCount = 0
    /\ InitRunIdle
    /\ InitNavIdle
    /\ InitFnIdle
    /\ InitConcIdle
    /\ InitProcIdle

NextCleanup ==
    \/ RunStart
    \/ LoginLaunch
    \/ LoginStep
    \/ BodyStep
    \/ AboutOpen
    \/ AboutClose
    \/ FinallyAbout
    \/ FinallyPage
    \/ FinallyBrowser

SpecCleanup == InitCleanup /\ [][NextCleanup]_vars

----------------------------------------------------------------------------
(* Claims about the load loop (checked under SpecLoad / SpecLoadFair) *)

\* The source is stalled: no scroll of the loop changed the count, which is below target
Stalled ==
    /\ ~changed
    /\ loaded < POSTS_TARGET
    /\ SCROLL_STALL_LIMIT < SCROLL_MAX_LOOPS

\* Iterations a stalled source of constant count `loaded` costs
StalledIterations ==
    IF loaded = 0 THEN Max(SCROLL_STALL_LIMIT, 1) ELSE SCROLL_STALL_LIMIT + 1

\* C1 (as stated, for stallLimit >= 1): on a stalled source with constant count
\* c < target and stallLimit < maxIterations, the loop never starts more than
\* stallLimit iterations, for c = 0 and c > 0 alike.
C1_Original ==
    (Stalled /\ SCROLL_STALL_LIMIT >= 1) => scrolls <= SCROLL_STALL_LIMIT

\* C1 (amended): on a stalled source with constant count c < target and
\* stallLimit < maxIterations, the loop stops by the stall exit, never by the
\* ceiling, after exactly max(stallLimit, 1) iterations when c = 0 and exactly
\* stallLimit + 1 iterations when c > 0 (the first read of c > 0 counts as growth
\* from lastCount = 0); so after at most stallLimit + 1 iterations.
C1_StalledStops ==
    Stalled =>
        /\ scrolls <= SCROLL_STALL_LIMIT + 1
        /\ scrolls <= StalledIterations
        /\ pc = "loop" => scrolls < StalledIterations
        /\ exit \in {"none", "stall"}
        /\ exit = "stall" => scrolls = StalledIterations

C1_Witness ==
    /\ Stalled
    /\ loaded > 0
    /\ SCROLL_STALL_LIMIT >= 1
    /\ exit = "stall"
    /\ scrolls = SCROLL_STALL_LIMIT + 1

\* C2: when the count read at iteration k = i + 1 is the first one >= target, the
\* loop stops right there by the target exit: exactly k scrolls were issued, the
\* stall counter and lastCount are not touched at iteration k, and no further
\* iteration starts.
C2_TargetStops ==
    /\ [][(pc = "count" /\ pc' # "thrown" /\ loaded >= POSTS_TARGET) =>
             /\ exit' = "target"
             /\ pc' = "exited"
             /\ stalls' = stalls
             /\ lastCount' = lastCount
             /\ i' = i
             /\ scrolls' = i + 1]_vars
    /\ [](exit = "target" => (scrolls = i + 1 /\ loaded >= POSTS_TARGET /\ pc \notin {"loop", "count"}))
    /\ [](exit \in {"stall", "ceiling"} => pc \notin {"loop", "count"})

C2_Witness ==
    /\ exit = "target"
    /\ i >= 2
    /\ stalls >= 1
    /\ lastCount >= 1
    /\ i + 1 < SCROLL_MAX_LOOPS

\* C3: whatever counts the page returns, the load loop issues at most
\* SCROLL_MAX_LOOPS scrolls (100 in the optimized scraper) and terminates.
C3_Ceiling ==
    /\ [](scrolls <= SCROLL_MAX_LOOPS)
    /\ <>LoadDone

C3_Witness ==
    /\ exit = "ceiling"
    /\ variant = "opt"
    /\ scrolls = OptMaxLoops
    /\ stalls = 0
    /\ changed

StallStepRule ==
    [][(pc = "count" /\ pc' # "thrown" /\ loaded < POSTS_TARGET) =>
          IF loaded > lastCount THEN stalls' = 0 ELSE stalls' = stalls + 1]_vars

StallOnlyInCount ==
    [][((pc # "count" \/ loaded >= POSTS_TARGET) /\ pc' # "thrown") => stalls' = stalls]_vars

\* C4 (as stated): stalls is set to 0 exactly when the count read is greater than
\* lastCount, incremented exactly when it is <= lastCount and below target, never
\* changed otherwise; hence 0 <= stalls <= stallLimit in every reachable state.
C4_Original ==
    /\ [][(pc = "count" /\ pc' # "thrown" /\ loaded > lastCount) => stalls' = 0]_vars
    /\ StallStepRule
    /\ [](stalls >= 0 /\ stalls <= SCROLL_STALL_LIMIT)

\* C4 (amended): at a count read below target, stalls is set to 0 exactly when the
\* count is greater than lastCount and incremented by exactly 1 exactly when it is
\* <= lastCount; it is never changed otherwise (not at the read that reaches the
\* target); hence 0 <= stalls <= max(stallLimit, 1) in every reachable state.
C4_StallCounter ==
    /\ StallStepRule
    /\ StallOnlyInCount
    /\ [](stalls >= 0 /\ stalls <= Max(SCROLL_STALL_LIMIT, 1))

C4_Witness ==
    /\ pc = "loop"
    /\ stalls = 0
    /\ lastCount >= 2
    /\ i >= 3
    /\ loaded = lastCount

\* C20 (as stated): in both load loops, whatever counts the page returns (shrinking
\* ones included), lastCount never decreases during a run, so a count below an
\* earlier one is never above lastCount and always counts as a stall.
C20_Original ==
    [][(pc = "count" /\ pc' # "thrown") => lastCount' >= lastCount]_vars

----------------------------------------------------------------------------
(* Claims about the run (checked under Spec) *)

Extracted == pc \in {"build", "done"}

\* The cleaned text of the k-th article in the DOM
CleanedAt(k) == IF variant = "main" THEN cleanText(source[k].text) ELSE extractPostText(source[k].text)

\* Articles that are the first, in item order, to carry their non-empty cleaned text
FirstSeen ==
    {k \in 1..loaded : CleanedAt(k) # <<>> /\ \A j \in 1..(k - 1) : CleanedAt(j) # CleanedAt(k)}

\* Articles the optimized scraper keeps: cleaned text longer than 5 characters
LongEnough == {k \in 1..loaded : StrLen(CleanedAt(k)) > 5}

Survivors == IF variant = "main" THEN FirstSeen ELSE LongEnough

\* The n-th smallest element of a set of numbers
Kth(K, n) == CHOOSE x \in K : Cardinality({y \in K : y < x}) = n - 1

\* C5: the list extracted by scrapeFacebookPage holds no two records with the same
\* cleaned text, and holds a record exactly for each article that is the first, in
\* item order, to carry its (non-empty) cleaned text, with that article's fields.
C5_Dedup ==
    (variant = "main" /\ Extracted) =>
        /\ \A m, n \in 1..Len(posts) : m # n => posts[m].text # posts[n].text
        /\ Len(posts) = Cardinality(FirstSeen)
        /\ \A n \in 1..Len(posts) :
              /\ posts[n].text = CleanedAt(Kth(FirstSeen, n))
              /\ posts[n].date = source[Kth(FirstSeen, n)].date
        /\ pc = "done" =>
              \A m, n \in 1..Len(result.posts) : m # n => result.posts[m].text # result.posts[n].text

\* Two articles with the same cleaned text and one with another: two records
C5_Witness ==
    /\ variant = "main"
    /\ pc = "done"
    /\ loaded = 3
    /\ Len(result.posts) = 2
    /\ \E j, k \in 1..loaded : j < k /\ CleanedAt(j) # <<>> /\ CleanedAt(j) = CleanedAt(k)
    /\ \A k \in 1..loaded : CleanedAt(k) # <<>>

\* C6: the returned records are the first min(target, survivors) surviving items,
\* in item order: never more than target, never reordered.
C6_Truncation ==
    pc = "done" =>
        /\ Len(result.posts) = Min(POSTS_TARGET, Cardinality(Survivors))
        /\ Len(result.posts) <= POSTS_TARGET
        /\ \A n \in 1..Len(result.posts) :
              /\ result.posts[n].text = CleanedAt(Kth(Survivors, n))
              /\ result.posts[n].text = posts[n].text
              /\ result.posts[n].date = posts[n].date
              /\ variant = "opt" => result.posts[n].id = Kth(Survivors, n)

C6_Witness ==
    /\ pc = "done"
    /\ POSTS_TARGET >= 1
    /\ Cardinality(Survivors) > POSTS_TARGET
    /\ Len(result.posts) = POSTS_TARGET
    /\ Cardinality(Survivors) < loaded

\* The text of an item as the claim cleans it: expand labels removed, cut at the
\* first action-bar label keeping only what precedes it, blanks collapsed, trimmed
PrefixCleaned(t) == Trim(CollapseBlanks(BeforeFirstLabel(ReplaceSeeMore(t, <<Blank>>))))

\* C7 (as stated): an item whose text is empty after removing the expand labels and
\* cutting at the first action-bar label produces no record: every record carries the
\* non-empty cleaned text of one of the items.
C7_Original ==
    (variant = "main" /\ Extracted) =>
        \A n \in 1..Len(posts) :
            \E k \in 1..loaded :
                /\ PrefixCleaned(source[k].text) # <<>>
                /\ posts[n].text = PrefixCleaned(source[k].text)

\* The end-to-end run: twelve distinct non-empty articles, target ten, a page that
\* keeps what it rendered, and a load loop that never counted a stall
EndToEnd ==
    /\ variant = "main"
    /\ source = E2ESource
    /\ POSTS_TARGET = E2ETarget
    /\ ~pageShrinks
    /\ ~stalledOnce
    /\ pc = "done"

\* C8 (as stated): the end-to-end run returns exactly ten records and reports as
\* meta.loadedArticles ten, or the first count >= 10 the load loop observed.
C8_Original ==
    EndToEnd =>
        /\ Len(result.posts) = E2ETarget
        /\ result.meta.loadedArticles \in {E2ETarget, exitCount}

\* C8 (amended): the end-to-end run leaves the loop by the target exit and returns
\* exactly ten records, the first ten articles; meta.loadedArticles is the number
\* of articles in the DOM at extraction, at least the first count >= 10 the loop
\* observed and at most twelve, since the extra safety scroll may reveal more.
C8_EndToEnd ==
    EndToEnd =>
        /\ exit = "target"
        /\ exitCount >= E2ETarget
        /\ Len(result.posts) = E2ETarget
        /\ \A n \in 1..Len(result.posts) : result.posts[n].text = E2ESource[n].text
        /\ result.meta.postsTarget = E2ETarget
        /\ result.meta.loadedArticles = loaded
        /\ result.meta.loadedArticles \in exitCount..E2EItems

C8_Witness ==
    /\ EndToEnd
    /\ exitCount = E2ETarget
    /\ result.meta.loadedArticles = E2EItems

\* Raw expressions parseDateToISO accepts
Parsable(d) ==
    \/ d.kind = "iso" /\ d.valid
    \/ d.kind = "rel"
    \/ d.kind = "abs" /\ (d.mon \in DOMAIN Months \/ LeadingUnit(d.mon) # "")

\* C9: in every returned record dateISO is set only if date is set and is an
\* expression parseDateToISO accepts; a record without date has dateISO = null.
C9_Timestamp ==
    (variant = "main" /\ pc = "done") =>
        \A n \in 1..Len(result.posts) :
            LET p == result.posts[n] IN
            /\ p.dateISO # NoValue =>
                  (p.date # NoValue /\ Parsable(p.date) /\ p.dateISO.kind \in {"instant", "iso"})
            /\ p.date = NoValue => p.dateISO = NoValue

C9_Witness ==
    /\ variant = "main"
    /\ pc = "done"
    /\ \E n \in 1..Len(result.posts) : result.posts[n].dateISO # NoValue
    /\ \E n \in 1..Len(result.posts) : result.posts[n].date = NoValue
    /\ \E n \in 1..Len(result.posts) :
          result.posts[n].date # NoValue /\ result.posts[n].dateISO = NoValue

\* The load loop gave up: it ended by the stall limit or by the iteration ceiling
Exhausted == exit \in {"stall", "ceiling"}

\* C12 (as stated): when the load loop of scrapeFacebookPage ends by the stall limit
\* or the ceiling (its last count below target), the result returned lets the caller
\* see that fewer than target items were loaded: meta.loadedArticles < meta.postsTarget.
C12_Original ==
    (variant = "main" /\ pc = "done" /\ Exhausted) =>
        result.meta.loadedArticles < result.meta.postsTarget

\* C12 (amended): when the load loop ends by the stall limit or the ceiling the run
\* does not throw on that account: it goes on to the safety scroll and the
\* extraction and, unless a later page call fails, returns a result whose meta
\* carries postsTarget and loadedArticles, the number of records extracted from the
\* items in the DOM at extraction; loadedArticles is below postsTarget whenever
\* fewer than target items are in the DOM then, which the safety scroll can undo.
C12_Exhaustion ==
    /\ [][(pc = "exited" /\ Exhausted) =>
             (pc' = (IF variant = "main" THEN "safety" ELSE "extract") /\ result' = NoValue)]_vars
    /\ []((variant = "main" /\ pc = "done" /\ Exhausted) =>
             /\ result.kind = "result"
             /\ result.meta.postsTarget = POSTS_TARGET
             /\ result.meta.loadedArticles = Cardinality(FirstSeen)
             /\ result.meta.loadedArticles <= loaded
             /\ loaded < POSTS_TARGET => result.meta.loadedArticles < result.meta.postsTarget
             /\ Len(result.posts) = Min(POSTS_TARGET, result.meta.loadedArticles))

\* The loop ran into the ceiling with two items, target above, and a result came back
C12_Witness ==
    /\ variant = "main"
    /\ pc = "done"
    /\ exit = "ceiling"
    /\ loaded = 2
    /\ POSTS_TARGET > loaded
    /\ result.meta.loadedArticles >= 1
    /\ result.meta.loadedArticles < result.meta.postsTarget

\* C17 (as stated): the item read of the extraction comes after the terminal state
\* of the load loop, and from that terminal state to the item read no reveal is
\* issued: the items in the DOM stay those present when the loop stopped.
C17_Original ==
    /\ [](Extracted => exit # "none")
    /\ [][(exit # "none" /\ ~Extracted) => (loaded' = loaded /\ pc # "safety")]_vars

\* C17 (amended): the item read of the extraction comes after the terminal state of
\* the load loop.  scrapeFacebookPageOptimized issues no reveal in between, so it
\* extracts the items present when its loop stopped; scrapeFacebookPage issues one
\* to five more scrolls (the extra safety scroll) before the read, and extracts the
\* items present after them: on a page that keeps what it rendered, those present
\* when the loop stopped and any the safety scroll revealed.
C17_ExtractionAfterLoad ==
    /\ [](Extracted => exit # "none")
    /\ [][(variant = "opt" /\ exit # "none" /\ ~Extracted) => (loaded' = loaded /\ pc # "safety")]_vars
    /\ [][(exit # "none" /\ loaded' # loaded) =>
             (variant = "main" /\ pc = "safety" /\ (pageShrinks \/ loaded' > loaded))]_vars
    /\ [](safetyScrolls < SafetyMaxScrolls)
    /\ []((Extracted /\ ~pageShrinks /\ exit \in {"target", "stall"}) => loaded >= exitCount)

\* The loop stalled at one item; the safety scroll revealed more before the read
C17_Witness ==
    /\ variant = "main"
    /\ pc = "done"
    /\ exit = "stall"
    /\ exitCount = 1
    /\ loaded > exitCount
    /\ Len(posts) = 2

----------------------------------------------------------------------------
(* Claims about gotoWithRetry (checked under SpecNav) *)

LastAttempt == attempts[Len(attempts)]

\* C10: gotoWithRetry calls page.goto at most maxRetries times, issues no call
\* after a successful one and returns then; when all maxRetries (>= 1) calls fail
\* it throws, and what it throws is the error of the last call.
C10_Attempts ==
    /\ Len(attempts) <= maxRetries
    /\ \A k \in 1..(Len(attempts) - 1) : attempts[k] # "ok"
    /\ (attempts # <<>> /\ LastAttempt = "ok") => (navPc = "returned" /\ thrown = "none")
    /\ (maxRetries >= 1 /\ Len(attempts) = maxRetries /\ LastAttempt # "ok") =>
          (navPc = "thrown" /\ thrown = LastAttempt)
    /\ navPc = "thrown" => (Len(attempts) = maxRetries /\ thrown = LastAttempt)
    /\ (navPc = "returned" /\ maxRetries >= 1) => LastAttempt = "ok"

C10_Witness ==
    /\ navPc = "thrown"
    /\ maxRetries = 3
    /\ attempts[1] # attempts[3]
    /\ thrown = attempts[3]

\* C19: the wait after the k-th failed attempt (k from 1) is k * 1000 ms; a wait
\* comes only after a failed attempt that is not the last and is followed by the
\* next attempt; no wait follows the last failed attempt or a successful one.
C19_Backoff ==
    /\ [](\A k \in 1..Len(sleeps) : sleeps[k] = k * 1000 /\ attempts[k] # "ok")
    /\ [](navPc = "loop" => Len(sleeps) = Len(attempts))
    /\ [](navPc = "sleep" => (Len(sleeps) = Len(attempts) - 1 /\ Len(attempts) < maxRetries))
    /\ []((navPc \in {"thrown", "returned"} /\ attempts # <<>>) => Len(sleeps) = Len(attempts) - 1)
    /\ [][sleeps' # sleeps =>
             /\ navPc = "sleep"
             /\ LastAttempt # "ok"
             /\ sleeps' = Append(sleeps, Len(attempts) * 1000)
             /\ navPc' = "loop"
             /\ navI' < maxRetries]_vars

\* Three failures, waits of 1, 2 and 3 seconds, then the fourth attempt succeeded
C19_Witness ==
    /\ navPc = "returned"
    /\ maxRetries = 4
    /\ Len(attempts) = 4
    /\ sleeps = <<1000, 2000, 3000>>

----------------------------------------------------------------------------
(* Claims about the whole run (checked under SpecScrape) *)

\* C11 (as stated): whenever any navigation of the run (main page, posts-tab
\* candidate, about page) has failed on all its attempts, the run throws and
\* never returns a result object.
C11_Original ==
    navFailed # {} => (pc # "done" /\ result = NoValue)

\* C11 (amended): when the main-page navigation fails on all its attempts the run
\* ends by throwing the error of the last attempt and never returns a result; a
\* posts-tab candidate or the about page failing on all its attempts is caught
\* and logged, and the run goes on (next candidate, DOM click, load loop).
C11_NavigationFailure ==
    /\ []("main" \in navFailed => (pc = "thrown" /\ result = NoValue /\ thrown \in Errors))
    /\ [][(navPc = "thrown" /\ pc = "navMain") => (pc' = "thrown" /\ thrown' = LastAttempt)]_vars
    /\ [][(navPc = "thrown" /\ pc \in {"navPosts", "navAbout"}) =>
             (pc' \in {"navPosts", "dom", "loop"} /\ thrown' = "none")]_vars
    /\ [](pc = "done" => "main" \notin navFailed)

\* The three attempts at the main page failed (with different errors) and the run threw
C11_Witness ==
    /\ pc = "thrown"
    /\ navFailed = {"main"}
    /\ thrown = "detached"
    /\ result = NoValue

----------------------------------------------------------------------------
(* Claims about parseCount (checked under SpecCount) *)

\* C13 (as stated): parseCount("1.5k") is 1500 and parseCount("2,300") is 2300; a
\* numeric token directly followed by a k/m/b suffix is scaled by 1e3/1e6/1e9, and
\* a number written with a grouping separator yields the whole number.
C13_Original ==
    calls = 1 =>
        /\ arg = <<"1", ".", "5", "k">> => ret = Num(1500)
        /\ arg = <<"2", ",", "3", "0", "0">> => ret = Num(2300)
        /\ arg = <<"2", ".", "3", "K">> => ret = Num(2300)
        /\ arg = <<"1", "M">> => ret = Num(1000000)
        /\ arg = <<"1", ",", "0">> => ret = Num(10)

----------------------------------------------------------------------------
(* Claims about parseDateToISO (checked under SpecDate) *)

\* The form toISOString() prints: seconds, three fraction digits, zone Z
Canonical(d) ==
    /\ d.kind = "iso"
    /\ d.valid
    /\ d.sec # ""
    /\ d.frac \in {"000", "120", "123", "500"}
    /\ d.zone = "Z"

\* Hours since day 0, UTC, of the instant an ISO string denotes
UtcHours(d) ==
    d.date * 24 + d.hour -
        (CASE d.zone = "Z" -> 0 [] d.zone = "+02:00" -> 2 [] d.zone = "-05:00" -> 0 - 5 [] OTHER -> tz)

\* C14 (as stated): for every valid ISO date-time string s, parseDateToISO(s) is s
\* itself, and parseDateToISO applied to its own output returns it unchanged.
C14_Original ==
    /\ (calls = 1 /\ arg.kind = "iso" /\ arg.valid) => ret = arg
    /\ (calls = 2 /\ arg.kind = "iso") => ret = arg

\* C14 (amended): for every valid ISO date-time string s, parseDateToISO(s) is the
\* instant s denotes (local time when s has no zone designator) printed in UTC with
\* seconds, three fraction digits and zone Z; it is s itself exactly when s is
\* already written in that form; applied to its own output it returns it unchanged.
C14_IsoRoundTrip ==
    /\ (calls = 1 /\ arg.kind = "iso" /\ arg.valid) =>
          /\ Canonical(ret)
          /\ UtcHours(ret) = UtcHours(arg)
          /\ ret.minute = arg.minute
          /\ ret.sec = (IF arg.sec = "" THEN "00" ELSE arg.sec)
          /\ (ret = arg) = Canonical(arg)
    /\ (calls = 2 /\ arg.kind = "iso") => (ret = arg /\ Canonical(arg))

\* 10:30+02:00 without seconds came back as 08:30:00.000Z, and that came back as itself
C14_Witness ==
    /\ calls = 2
    /\ arg.kind = "iso"
    /\ arg.hour = 8
    /\ arg.sec = "00"
    /\ arg.frac = "000"
    /\ ret = arg

\* C15 (as stated): for every <day> <month-name> at <hour>:<minute> [period] whose
\* month name is in the table (day one the month has) and every current date,
\* parseDateToISO returns a timestamp of the current year with the table's month
\* and that day; it is never treated as a relative expression.
C15_Original ==
    (calls = 1 /\ arg.kind = "abs" /\ arg.mon \in DOMAIN Months
        /\ arg.day \in 1..DaysIn(Months[arg.mon])) =>
        /\ ret.kind = "instant"
        /\ ret.how = "abs"
        /\ ret.year = 0
        /\ ret.month = Months[arg.mon]
        /\ ret.day = arg.day

----------------------------------------------------------------------------
(* Claims about overlapping runs (checked under SpecTwo) *)

\* What the loop running alone makes of the counts obs, starting from bindings f
RECURSIVE AloneFrom(_, _)
AloneFrom(obs, f) ==
    IF obs = <<>> THEN [frame |-> f, exit |-> "none"]
    ELSE LET after == LoopBody(f, Head(obs))
         IN  IF after.exit # "none" THEN after ELSE AloneFrom(Tail(obs), after.frame)

\* C16: however two runs interleave at their awaits, a step of one run changes
\* nothing of the other (neither its lastCount, stalls, i nor its records), and the
\* bindings, loop exit and records of each run are those the loop and the
\* extraction give alone on the counts and the items that run read from its page.
C16_Independent ==
    /\ [][\A r \in Runs : conc'[r] # conc[r] =>
             \A o \in Runs \ {r} : conc'[o] = conc[o] /\ frames'[o] = frames[o]]_vars
    /\ [](\A r \in Runs :
            LET alone == AloneFrom(conc[r].obs, NewFrame) IN
            /\ frames[r] = alone.frame
            /\ conc[r].exit \in {alone.exit, "ceiling"}
            /\ conc[r].exit = "ceiling" =>
                  (alone.exit = "none" /\ alone.frame.i = SCROLL_MAX_LOOPS)
            /\ conc[r].pc = "done" =>
                  conc[r].posts =
                      (IF variant = "main"
                       THEN ExtractMain(SubSeq(PageOf(r), 1, conc[r].loaded))
                       ELSE ExtractOpt(SubSeq(PageOf(r), 1, conc[r].loaded))))

\* Run 2 started and counted stalls while run 1 was in its loop with other counts
C16_Witness ==
    /\ conc[1].pc = "loop"
    /\ conc[2].pc = "loop"
    /\ frames[1].lastCount = 2
    /\ frames[1].stalls = 0
    /\ frames[2].lastCount = 1
    /\ frames[2].stalls >= 2
    /\ Len(conc[1].obs) >= 2

----------------------------------------------------------------------------
(* Claims about extractReactions (checked under SpecReact) *)

\* Some strategy yields a number for the article
SomeStrategyYields(article) ==
    \/ article.hasTotal /\ toNumber(article.total) # NoValue
    \/ \E k \in 1..Len(article.labels) : toNumber(article.labels[k]) # NoValue
    \/ \E k \in 1..Len(article.spans) : toNumber(article.spans[k]) # NoValue

\* C18 (as stated): extractReactions returns null only when every strategy fails;
\* when the total-interactions label matches but its number cannot be parsed, the
\* aria-labels and then the spans are still tried and the first number is returned.
C18_Original ==
    calls = 1 =>
        /\ ret = NoValue => ~SomeStrategyYields(arg)
        /\ (arg.hasTotal /\ toNumber(arg.total) = NoValue) =>
              ret = (IF FirstNumber(arg.labels) # NoValue THEN FirstNumber(arg.labels)
                     ELSE FirstNumber(arg.spans))

----------------------------------------------------------------------------
(* Claims about the browser cleanup (checked under SpecCleanup) *)

Ended == pc \in {"returned", "rethrown"}

CloseCalled(target, b) ==
    \E k \in 1..Len(closes) : closes[k].target = target /\ closes[k].of = b

\* C21: when a run has ended, by returning or by throwing at any step, close()
\* has been called on every browser launched during the run, and a page.close()
\* that failed is followed by the browser.close() call
C21_Original ==
    Ended =>
       /\ \A b \in launched : CloseCalled("browser", b)
       /\ \A k \in 1..Len(closes) :
             (closes[k].target = "page" /\ ~closes[k].ok) =>
                \E j \in (k + 1)..Len(closes) : closes[j].target = "browser"

----------------------------------------------------------------------------
(* Claims about the return of gotoWithRetry (checked under SpecNav) *)

SomeGotoSucceeded == \E k \in 1..Len(attempts) : attempts[k] = "ok"

----------------------------------------------------------------------------
(* Claims about the summary of scrapeFacebookPageOptimized (checked under    *)
(* SpecSummary)                                                              *)

\* C23: in every result of scrapeFacebookPageOptimized, summary.total_posts is
\* the length of result.posts, the summary totals are the sums over result.posts,
\* and summary.best_post, when not null, is one of the records of result.posts
C23_Original ==
    (pc = "done" /\ variant = "opt") =>
       /\ result.summary.total_posts = Len(result.posts)
       /\ result.summary.total_reactions = SumOf(result.posts, "reactions")
       /\ result.summary.total_comments = SumOf(result.posts, "comments")
       /\ result.summary.total_shares = SumOf(result.posts, "shares")
       /\ result.summary.best_post # NoValue =>
             \E k \in 1..Len(result.posts) : result.posts[k] = result.summary.best_post

====
